---- MODULE Spec2Model ----
(***************************************************************************)
(* Model of the message-intake cycle (src/src/main.py: process_once), the  *)
(* poll schedulers that drive it (main.py: watch_loop, tray_app.py:        *)
(* WatcherThread.run) and the mailbox / confirmation collaborators they    *)
(* call (gmail_client.py: GmailWatcher, automation.py).                    *)
(***************************************************************************)
EXTENDS Integers, Sequences, FiniteSets, TLC

\* ------------------------------------------------------------------ bounds
MaxBatch == 2       \* most candidates one search returns in the model
MaxTime == 2        \* the clock and the receipt timestamps range over 1..MaxTime
MaxThreads == 2     \* most WatcherThread objects the tray creates in the model
MaxNodes == 3       \* most nodes of a MIME tree handed to the decoder
MaxParts == 3       \* most decoded parts handed to an extractor directly

\* ------------------------------------------------------- program constants
max_results == 10   \* batch size passed to search_messages

\* --------------------------------------------------------------- universes
Times == 1..MaxTime
None == -1                      \* Python None for an Optional[int]
BadDate == -2                   \* internalDate missing or not an integer
NoLink == "None"                \* extract_update_link_from_message -> None
Unset == "unset"                \* os.getenv("LAST_OPENED_LINK") -> None
Links == {"L1", "L2"}
Sessions == {"watch_loop", "WatcherThread"}
\* the one-shot command without --since-epoch-ms, and a call of process_once
\* with a given anchor_ts_ms (the one-shot command with it, or the default)
OneShots == {"once", "call"}

\* a fetched message, as far as process_once looks at it
Messages == [internalDate : Times \cup {BadDate}, link : Links \cup {NoLink}]

VARIABLES
    now,                \* the last value read from the clock by _now_ms
    records,            \* names (action timestamps) of the result files
    LAST_OPENED_LINK,   \* os.environ["LAST_OPENED_LINK"]
    last_actioned,      \* history: the link of the session's last successful action
    session_start,      \* history: the clock value the session's first anchor was read from
    session,            \* which scheduler runs: watch_loop or WatcherThread.run
    open_once,          \* duplicate-open suppression flag
    auto_click,         \* drive the Confirmation Actor (TRUE) or open only
    stop_event,         \* threading.Event shared with the tray
    spc,                \* scheduler position
    anchor,             \* the scheduler's anchor
    ppc,                \* position inside process_once
    anchor_ts_ms,       \* process_once argument (kept after the call)
    ids,                \* search result: ids[i] is the message behind the i-th id
    idx,                \* index of the next candidate of the for loop
    result,             \* (exit_code, actioned, next_anchor) returned
    raised_in,          \* the call whose exception left process_once
    fetched,            \* number of get_message_raw calls (candidates 1..fetched)
    extracted,          \* candidates passed to extract_update_link_from_message
    skipped,            \* candidates left by a `continue`, with the reason
    acts,               \* action attempts of this invocation
    marked,             \* mark_as_read calls: <<candidate, succeeded>>
    wrote,              \* result files written: <<candidate, name>>
    ui,                 \* position of the tray's menu / settings callbacks
    worker,             \* TrayApp.worker: 0 (None) or the thread it refers to
    threads,            \* the WatcherThread objects created so far
    settings,           \* TrayApp's in-memory settings
    saved,              \* content of settings.json
    restarted,          \* the last save reported "le watcher a ete redemarre"
    payload,            \* msg['payload'] handed to the decoder
    dparts,             \* list of (mime, content) the decoder returned
    dpc,                \* position of the decoder / extractor call
    dout                \* value returned by the extractor

vars == <<now, records, LAST_OPENED_LINK, last_actioned, session_start,
          session, open_once, auto_click,
          stop_event, spc, anchor, ppc, anchor_ts_ms, ids, idx, result,
          raised_in, fetched, extracted, skipped, acts, marked, wrote,
          ui, worker, threads, settings, saved, restarted,
          payload, dparts, dpc, dout>>

worldVars == <<records, LAST_OPENED_LINK, last_actioned>>
cfgVars == <<session, open_once, auto_click, session_start>>
schedVars == <<spc, anchor, stop_event>>
logVars == <<fetched, extracted, skipped, acts, marked, wrote>>
trayVars == <<ui, worker, threads, settings, saved, restarted>>
decVars == <<payload, dparts, dpc, dout>>
auxVars == <<trayVars, decVars>>
\* the intake cycle and its scheduler, apart from the stop signal
cycleVars == <<now, worldVars, cfgVars, spc, anchor, ppc, anchor_ts_ms, ids,
               idx, result, raised_in, logVars>>

NoResult == [exit_code |-> None, actioned |-> FALSE, next_anchor |-> None]

\* ----------------------------------------------------------------- helpers
Min(a, b) == IF a < b THEN a ELSE b

\* sequences over S of length at most n
RECURSIVE SeqsUpTo(_, _)
SeqsUpTo(S, n) ==
    IF n = 0 THEN {<<>>}
    ELSE {<<>>} \cup {<<x>> \o t : x \in S, t \in SeqsUpTo(S, n - 1)}

\* what one search can return: at most max_results messages, in any order
Batches == SeqsUpTo(Messages, Min(max_results, MaxBatch))

\* _now_ms(): the clock does not go backwards
NowMs == now..MaxTime

\* mutant: a message without a usable internalDate counts as just received
InternalMsLatest(m) == IF m.internalDate = BadDate THEN MaxTime ELSE m.internalDate

\* int(msg.get('internalDate')) with the TypeError/ValueError fallback
InternalMs(m) == IF m.internalDate = BadDate THEN 0 ELSE m.internalDate

\* mutant: the filter lets a message received exactly at the anchor through
IsStaleStrict(internal_ms, a) == a # None /\ internal_ms < a

\* the anchor filter of the candidate loop
IsStale(internal_ms, a) == a # None /\ internal_ms <= a

\* mutant: the duplicate-open test is missing
DedupNever(once, last, link) == FALSE

\* the duplicate-open test
DedupSkip(once, last, link) == once /\ last = link

\* mutant: the link test is missing, a candidate without a link is acted on
HasLinkAlways(link) == TRUE

\* `if link:` after the extraction
HasLink(link) == link # NoLink

\* mutant: the auto_click flag is ignored, the actor is always driven
UseActorAlways(ac) == TRUE

\* `if auto_click:` chooses the Confirmation Actor over open-only
UseActor(ac) == ac

\* mutant: an actor that raised is taken for a success
ActorSuccessUnlessFalse(outcome) == outcome # "false"

\* whether the actor's outcome counts as success
ActorSuccess(outcome) == outcome = "true"

\* mutant: no try around the result file, a failing write leaves process_once
WriteFailureRaises == FALSE

\* the try/except around the extraction of the requester and the file write
WriteFailureCaught == TRUE

\* mutant: no try around mark_as_read
MarkFailureRaises == FALSE

\* the try/except around mark_as_read
MarkFailureCaught == TRUE

\* mutant: the cycle returns no anchor after an action
NewAnchorAbsent(t_end, m) == None

\* mutant: the new anchor is the receipt timestamp of the message acted on
NewAnchorFromMessage(t_end, m) == InternalMs(m)

\* new_anchor = _now_ms() once the candidate is dealt with
NewAnchor(t_end, m) == t_end

\* mutant: the return is missing, the loop goes on to the next candidate
EndsCycleNever(success) == FALSE

\* whether the statements after the action attempt (mark_as_read, new_anchor,
\* return) run: they sit under `if link:`, not under `if success:`
EndsCycle(success) == TRUE

\* the environment variable after open_update_link(link, open_once, False)
EnvAfterOpen(once, last, link) == IF once THEN link ELSE last

\* the environment variable after the auto-click branch of process_once
EnvAfterClick(once, last, link, success) == last

\* mutant: the scheduler stores whatever next_anchor the cycle returned
NextAnchorAlways(a, r) == r.next_anchor

\* the scheduler's anchor after a cycle that returned normally
NextAnchor(a, r) ==
    IF r.actioned /\ r.next_anchor # None THEN r.next_anchor ELSE a

\* exit code when the search returns nothing
EmptyCode == 1

\* mutant: the exhausted loop reports "no candidate messages"
LoopEndCodeAsEmpty == EmptyCode

\* exit code when the candidate loop runs to its end
LoopEndCode == 2

\* mutant: the scheduler does not catch the exception and ends
OnCycleExceptionExit == "stopped"

\* scheduler position after `except Exception`: log, then sleep
OnCycleException == "sleep"

TypeOK ==
    /\ now \in Times
    /\ records \subseteq Times
    /\ LAST_OPENED_LINK \in Links \cup {Unset}
    /\ last_actioned \in Links \cup {Unset}
    /\ session \in Sessions
    /\ open_once \in BOOLEAN /\ auto_click \in BOOLEAN /\ stop_event \in BOOLEAN
    /\ spc \in {"start", "ready", "call", "cycle", "sleep", "stopped"}
    /\ anchor \in Times \cup {None}
    /\ ppc \in {"idle", "search", "loop", "returned", "raised"}
    /\ anchor_ts_ms \in Times \cup {None}
    /\ ids \in SeqsUpTo(Messages, MaxBatch)
    /\ idx \in 1..(MaxBatch + 1)
    /\ fetched \in 0..MaxBatch
    /\ raised_in \in {"none", "search", "fetch", "write", "mark"}

\* -------------------------------------------------------------------- Init
InitCycle ==
    /\ now = 1
    /\ records = {}
    /\ LAST_OPENED_LINK = Unset
    /\ last_actioned = Unset
    /\ session_start = None
    /\ session \in Sessions
    /\ open_once \in (IF session = "WatcherThread" THEN {TRUE} ELSE BOOLEAN)
    /\ auto_click \in (IF session = "WatcherThread" THEN {TRUE} ELSE BOOLEAN)
    /\ stop_event = FALSE
    /\ spc = "start"
    /\ anchor = None
    /\ ppc = "idle"
    /\ anchor_ts_ms = None
    /\ ids = <<>>
    /\ idx = 1
    /\ result = NoResult
    /\ raised_in = "none"
    /\ fetched = 0
    /\ extracted = {}
    /\ skipped = {}
    /\ acts = <<>>
    /\ marked = {}
    /\ wrote = {}

\* ------------------------------------------------------------ tray state
\* the values a settings field takes in the model
Intervals == {30, 60}
Delays == {0, 10}
Dirs == {"None", "out"}         \* output_dir: None or a folder
Ports == {6969, 8080}

\* TrayApp's settings: interval, close_delay, output_dir, oauth_port,
\* logging_enabled (with log_dir) and run_at_startup
Settings == [interval : Intervals, close_delay : Delays, output_dir : Dirs,
             oauth_port : Ports, logging_enabled : BOOLEAN,
             run_at_startup : BOOLEAN]

\* TrayApp.__init__ with no environment overrides and no settings.json
DefaultSettings ==
    [interval |-> 60, close_delay |-> 10, output_dir |-> "None",
     oauth_port |-> 6969, logging_enabled |-> TRUE, run_at_startup |-> FALSE]

Threads == 1..MaxThreads

\* a WatcherThread: where it stands in run(), and the settings it was given
Unborn == [st |-> "unborn", interval |-> 0, close_delay |-> 0,
           output_dir |-> "None"]

\* a thread that has ended; the settings it had no longer matter
Ended == [st |-> "dead", interval |-> 0, close_delay |-> 0,
          output_dir |-> "None"]

\* threading.Thread.is_alive()
IsAlive(th) == th.st \in {"test", "call", "cycle", "wait"}

\* TrayApp.__init__: no worker yet, the stop event clear
InitTray ==
    /\ ui = "idle"
    /\ worker = 0
    /\ threads = [t \in Threads |-> Unborn]
    /\ settings = DefaultSettings
    /\ saved = DefaultSettings
    /\ restarted = FALSE

\* --------------------------------------------------------- decoder state
NoPayload == <<>>

\* no decoder call is being looked at
DecodeIdle ==
    /\ payload = NoPayload
    /\ dparts = <<>>
    /\ dpc = "off"
    /\ dout = NoLink

\* one scheduler around the intake cycle; tray and decoder at rest
Init == InitCycle /\ InitTray /\ DecodeIdle

\* ------------------------------------------------------------- environment
\* TrayApp.stop sets the stop signal of a live worker
TrayStop ==
    /\ session = "WatcherThread"
    /\ spc # "stopped"
    /\ ~stop_event
    /\ stop_event' = TRUE
    /\ UNCHANGED <<now, worldVars, cfgVars, auxVars,
                   spc, anchor, ppc, anchor_ts_ms,
                   ids, idx, result, raised_in, logVars>>

\* --------------------------------------------------------------- scheduler
\* anchor = _now_ms() before the loop
WatchStart ==
    /\ session \in Sessions
    /\ spc = "start"
    /\ \E t \in NowMs : now' = t /\ anchor' = t /\ session_start' = t
    /\ spc' = "ready"
    /\ UNCHANGED <<worldVars, session, open_once, auto_click, auxVars,
                   stop_event, ppc, anchor_ts_ms, ids, idx,
                   result, raised_in, logVars>>

\* mutant: the stop signal is not tested at the top of the loop
LoopTestAlways(kind, stop) == TRUE

\* the loop test of WatcherThread.run (watch_loop loops on True)
LoopTest(kind, stop) == kind = "watch_loop" \/ ~stop

\* the loop test passes; the call of process_once is the next statement, and
\* the tray may set the stop signal in between
LoopEnter ==
    /\ spc = "ready"
    /\ LoopTest(session, stop_event)
    /\ spc' = "call"
    /\ UNCHANGED <<now, worldVars, cfgVars, auxVars, anchor, stop_event, ppc,
                   anchor_ts_ms, ids, idx, result, raised_in, logVars>>

\* call process_once with the current anchor
CycleBegin ==
    /\ spc = "call"
    /\ spc' = "cycle"
    /\ ppc' = "search"
    /\ anchor_ts_ms' = anchor
    /\ UNCHANGED <<now, worldVars, cfgVars, auxVars,
                   anchor, stop_event, ids, idx,
                   result, raised_in, logVars>>

\* the loop test fails: the worker thread ends
WatcherExit ==
    /\ spc = "ready"
    /\ ~LoopTest(session, stop_event)
    /\ spc' = "stopped"
    /\ UNCHANGED <<now, worldVars, cfgVars, auxVars, anchor, stop_event, ppc,
                   anchor_ts_ms, ids, idx, result, raised_in, logVars>>

\* the frame of process_once is gone once the scheduler has its outcome
DropFrame ==
    /\ ppc' = "idle"
    /\ ids' = <<>> /\ idx' = 1
    /\ result' = NoResult /\ raised_in' = "none"
    /\ fetched' = 0 /\ extracted' = {} /\ skipped' = {}
    /\ acts' = <<>> /\ marked' = {} /\ wrote' = {}

\* process_once returned: update the anchor, then go to sleep
CycleReturn ==
    /\ session \in Sessions
    /\ spc = "cycle" /\ ppc = "returned"
    /\ anchor' = NextAnchor(anchor, result)
    /\ spc' = "sleep"
    /\ DropFrame
    /\ UNCHANGED <<now, worldVars, cfgVars, auxVars, stop_event, anchor_ts_ms>>

\* process_once raised: the exception is logged, then go to sleep
CycleRaise ==
    /\ session \in Sessions
    /\ spc = "cycle" /\ ppc = "raised"
    /\ spc' = OnCycleException
    /\ DropFrame
    /\ UNCHANGED <<now, worldVars, cfgVars, auxVars,
                   anchor, stop_event, anchor_ts_ms>>

\* mutant: the result of stop_event.wait is ignored
AfterWaitIgnoresStop(kind, stop) == "ready"

\* after time.sleep(interval), or stop_event.wait(interval) and its break
AfterWait(kind, stop) ==
    IF kind = "WatcherThread" /\ stop THEN "stopped" ELSE "ready"

\* end of time.sleep(interval) / stop_event.wait(interval)
Wake ==
    /\ spc = "sleep"
    /\ spc' = AfterWait(session, stop_event)
    /\ UNCHANGED <<now, worldVars, cfgVars, auxVars, anchor, stop_event, ppc,
                   anchor_ts_ms, ids, idx, result, raised_in, logVars>>

\* ------------------------------------------------------------ process_once
InLoop == spc = "cycle" /\ ppc = "loop" /\ idx <= Len(ids)
mid == idx
msg == ids[idx]

\* search_messages raises (HttpError -> RuntimeError, or an auth error)
SearchFails ==
    /\ spc = "cycle" /\ ppc = "search"
    /\ ppc' = "raised"
    /\ raised_in' = "search"
    /\ UNCHANGED <<now, worldVars, cfgVars, auxVars,
                   schedVars, anchor_ts_ms, ids, idx,
                   result, logVars>>

\* search_messages returns ids, in the provider's order.  The mailbox belongs
\* to the provider: each search may return any batch, and ids[i] stands for
\* the message get_message_raw returns for the i-th id.
Search ==
    /\ spc = "cycle" /\ ppc = "search"
    /\ ids' \in Batches
    /\ IF ids' = <<>>
       THEN /\ ppc' = "returned"
            /\ result' = [exit_code |-> EmptyCode, actioned |-> FALSE,
                          next_anchor |-> None]
       ELSE /\ ppc' = "loop"
            /\ UNCHANGED result
    /\ UNCHANGED <<now, worldVars, cfgVars, auxVars,
                   schedVars, anchor_ts_ms, idx,
                   raised_in, logVars>>

\* get_message_raw raises: nothing in process_once catches it
FetchFails ==
    /\ InLoop
    /\ fetched' = fetched + 1
    /\ ppc' = "raised"
    /\ raised_in' = "fetch"
    /\ UNCHANGED <<now, worldVars, cfgVars, auxVars,
                   schedVars, anchor_ts_ms, ids, idx,
                   result, extracted, skipped, acts, marked, wrote>>

\* the message is at or before the anchor: continue
SkipStale ==
    /\ InLoop
    /\ IsStale(InternalMs(msg), anchor_ts_ms)
    /\ fetched' = fetched + 1
    /\ skipped' = skipped \cup {<<mid, "stale">>}
    /\ idx' = idx + 1
    /\ UNCHANGED <<now, worldVars, cfgVars, auxVars,
                   schedVars, ppc, anchor_ts_ms, ids,
                   result, raised_in, extracted, acts, marked, wrote>>

\* no link in the message: next iteration
SkipNoLink ==
    /\ InLoop
    /\ ~IsStale(InternalMs(msg), anchor_ts_ms)
    /\ ~HasLink(msg.link)
    /\ fetched' = fetched + 1
    /\ extracted' = extracted \cup {mid}
    /\ skipped' = skipped \cup {<<mid, "nolink">>}
    /\ idx' = idx + 1
    /\ UNCHANGED <<now, worldVars, cfgVars, auxVars,
                   schedVars, ppc, anchor_ts_ms, ids,
                   result, raised_in, acts, marked, wrote>>

\* the link is the one opened last and open_once is set: continue
SkipDedup ==
    /\ InLoop
    /\ ~IsStale(InternalMs(msg), anchor_ts_ms)
    /\ HasLink(msg.link)
    /\ DedupSkip(open_once, LAST_OPENED_LINK, msg.link)
    /\ fetched' = fetched + 1
    /\ extracted' = extracted \cup {mid}
    /\ skipped' = skipped \cup {<<mid, "dedup">>}
    /\ idx' = idx + 1
    /\ UNCHANGED <<now, worldVars, cfgVars, auxVars,
                   schedVars, ppc, anchor_ts_ms, ids,
                   result, raised_in, acts, marked, wrote>>

\* what follows the action attempt: the record (on success), then
\* mark_as_read, new_anchor = _now_ms() and the return
AfterAct(success, t_rec, write_ok, mark_ok, t_end) ==
    IF success /\ ~write_ok /\ ~WriteFailureCaught
    THEN /\ ppc' = "raised"
         /\ raised_in' = "write"
         /\ now' = t_rec
         /\ UNCHANGED <<records, wrote, marked, result, idx>>
    ELSE /\ IF success /\ write_ok
            THEN /\ records' = records \cup {t_rec}
                 /\ wrote' = wrote \cup {<<mid, t_rec>>}
            ELSE UNCHANGED <<records, wrote>>
         /\ IF EndsCycle(success)
            THEN /\ marked' = marked \cup {<<mid, mark_ok>>}
                 /\ now' = t_end
                 /\ IF ~mark_ok /\ ~MarkFailureCaught
                    THEN /\ ppc' = "raised"
                         /\ raised_in' = "mark"
                         /\ UNCHANGED <<result, idx>>
                    ELSE /\ ppc' = "returned"
                         /\ result' = [exit_code |-> 0, actioned |-> TRUE,
                                       next_anchor |-> NewAnchor(t_end, msg)]
                         /\ UNCHANGED <<raised_in, idx>>
            ELSE /\ now' = t_rec
                 /\ idx' = idx + 1
                 /\ UNCHANGED <<marked, ppc, result, raised_in>>

\* a candidate reaches the action attempt
Actionable ==
    /\ InLoop
    /\ ~IsStale(InternalMs(msg), anchor_ts_ms)
    /\ HasLink(msg.link)
    /\ ~DedupSkip(open_once, LAST_OPENED_LINK, msg.link)

\* auto_click: confirm_netflix_primary_location returns or raises
ActAutoClick ==
    /\ Actionable
    /\ UseActor(auto_click)
    /\ \E outcome \in {"true", "false", "raise"}, write_ok, mark_ok \in BOOLEAN,
          t_rec \in NowMs :
        \E t_end \in t_rec..MaxTime :
            /\ acts' = Append(acts, [mid |-> mid, link |-> msg.link,
                                     via |-> "actor", outcome |-> outcome])
            /\ AfterAct(ActorSuccess(outcome), t_rec, write_ok, mark_ok, t_end)
            /\ LAST_OPENED_LINK' = EnvAfterClick(open_once, LAST_OPENED_LINK,
                                                 msg.link, ActorSuccess(outcome))
            /\ last_actioned' = IF ActorSuccess(outcome) THEN msg.link
                                                         ELSE last_actioned
    /\ fetched' = fetched + 1
    /\ extracted' = extracted \cup {mid}
    /\ UNCHANGED <<cfgVars, auxVars, schedVars, anchor_ts_ms, ids, skipped>>

\* open only: open_update_link(link, open_once, auto_click=False)
ActOpenOnly ==
    /\ Actionable
    /\ ~UseActor(auto_click)
    /\ \E write_ok, mark_ok \in BOOLEAN, t_rec \in NowMs :
        \E t_end \in t_rec..MaxTime :
            /\ acts' = Append(acts, [mid |-> mid, link |-> msg.link,
                                     via |-> "open", outcome |-> "true"])
            /\ AfterAct(TRUE, t_rec, write_ok, mark_ok, t_end)
    /\ LAST_OPENED_LINK' = EnvAfterOpen(open_once, LAST_OPENED_LINK, msg.link)
    /\ last_actioned' = msg.link
    /\ fetched' = fetched + 1
    /\ extracted' = extracted \cup {mid}
    /\ UNCHANGED <<cfgVars, auxVars, schedVars, anchor_ts_ms, ids, skipped>>

\* the for loop is exhausted
LoopEnd ==
    /\ spc = "cycle" /\ ppc = "loop" /\ idx > Len(ids)
    /\ ppc' = "returned"
    /\ result' = [exit_code |-> LoopEndCode, actioned |-> FALSE,
                  next_anchor |-> None]
    /\ UNCHANGED <<now, worldVars, cfgVars, auxVars,
                   schedVars, anchor_ts_ms, ids, idx,
                   raised_in, logVars>>

\* ------------------------------------------------------------------- Spec
Next ==
    \/ TrayStop
    \/ WatchStart
    \/ LoopEnter
    \/ CycleBegin
    \/ WatcherExit
    \/ CycleReturn
    \/ CycleRaise
    \/ Wake
    \/ SearchFails
    \/ Search
    \/ FetchFails
    \/ SkipStale
    \/ SkipNoLink
    \/ SkipDedup
    \/ ActAutoClick
    \/ ActOpenOnly
    \/ LoopEnd

Spec == Init /\ [][Next]_vars

\* the steps of the thread that runs the scheduler (all but the tray's stop)
Worker ==
    \/ WatchStart
    \/ LoopEnter
    \/ CycleBegin
    \/ WatcherExit
    \/ CycleReturn
    \/ CycleRaise
    \/ Wake
    \/ SearchFails
    \/ Search
    \/ FetchFails
    \/ SkipStale
    \/ SkipNoLink
    \/ SkipDedup
    \/ ActAutoClick
    \/ ActOpenOnly
    \/ LoopEnd

\* the scheduling thread keeps running: its next statement is executed
FairSpec == Init /\ [][Next]_vars /\ WF_vars(Worker)

\* ------------------------------------------------- command line and signals
\* the anchor_ts_ms a caller of process_once can give: none, or a timestamp
\* from the epoch on
GivenAnchors == {None, 0} \cup Times

\* a one-shot run, before main reads its arguments; the environment it
\* starts in may already hold a last opened link
InitOnce ==
    /\ now = 1
    /\ records = {}
    /\ LAST_OPENED_LINK \in Links \cup {Unset}
    /\ last_actioned = Unset
    /\ session_start = None
    /\ session \in OneShots
    /\ open_once \in BOOLEAN
    /\ auto_click \in BOOLEAN
    /\ stop_event = FALSE
    /\ spc = "start"
    /\ anchor = None
    /\ ppc = "idle"
    /\ anchor_ts_ms = None
    /\ ids = <<>>
    /\ idx = 1
    /\ result = NoResult
    /\ raised_in = "none"
    /\ fetched = 0
    /\ extracted = {}
    /\ skipped = {}
    /\ acts = <<>>
    /\ marked = {}
    /\ wrote = {}

\* main without a sub-command loop: the anchor is --since-epoch-ms if given,
\* else _now_ms(); then process_once is called once
OnceStart ==
    /\ session \in OneShots
    /\ spc = "start"
    /\ IF session = "once"
       THEN \E t \in NowMs : now' = t /\ anchor' = t /\ session_start' = t
       ELSE anchor' \in GivenAnchors /\ UNCHANGED <<now, session_start>>
    /\ spc' = "call"
    /\ UNCHANGED <<worldVars, session, open_once, auto_click, auxVars,
                   stop_event, ppc, anchor_ts_ms, ids, idx,
                   result, raised_in, logVars>>

\* process_once is over: main returns its exit code, or the exception ends
\* the process
OnceExit ==
    /\ session \in OneShots
    /\ spc = "cycle" /\ ppc \in {"returned", "raised"}
    /\ spc' = "stopped"
    /\ UNCHANGED <<now, worldVars, cfgVars, auxVars, anchor, stop_event, ppc,
                   anchor_ts_ms, ids, idx, result, raised_in, logVars>>

\* the statements of watch_loop inside its try block: the call of
\* process_once and what follows it up to the log of the cycle
InTry(pos) == pos \in {"call", "cycle"}

\* KeyboardInterrupt while watch_loop is inside its try block: the stop is
\* logged and watch_loop returns 0
InterruptCaught ==
    /\ session = "watch_loop"
    /\ spc \notin {"stopped", "killed"}
    /\ InTry(spc)
    /\ spc' = "stopped"
    /\ DropFrame
    /\ UNCHANGED <<now, worldVars, cfgVars, auxVars,
                   anchor, stop_event, anchor_ts_ms>>

\* KeyboardInterrupt outside the try block (the first anchor, the loop
\* test, time.sleep): it leaves watch_loop as an exception
InterruptUncaught ==
    /\ session = "watch_loop"
    /\ spc \notin {"stopped", "killed"}
    /\ ~InTry(spc)
    /\ spc' = "killed"
    /\ UNCHANGED <<now, worldVars, cfgVars, auxVars, anchor, stop_event, ppc,
                   anchor_ts_ms, ids, idx, result, raised_in, logVars>>

\* every way main.py and the tray run process_once, with the operator's
\* interrupt
RunNext ==
    \/ Next
    \/ OnceStart
    \/ OnceExit
    \/ InterruptCaught
    \/ InterruptUncaught

RunInit ==
    /\ InitCycle \/ (InitOnce /\ LAST_OPENED_LINK = Unset)
    /\ InitTray /\ DecodeIdle
RunSpec == RunInit /\ [][RunNext]_vars

\* one call of process_once, as the one-shot command makes it
OnceNext ==
    \/ OnceStart
    \/ CycleBegin
    \/ SearchFails
    \/ Search
    \/ FetchFails
    \/ SkipStale
    \/ SkipNoLink
    \/ SkipDedup
    \/ ActAutoClick
    \/ ActOpenOnly
    \/ LoopEnd
    \/ OnceExit

OnceInit == InitOnce /\ InitTray /\ DecodeIdle
OnceSpec == OnceInit /\ [][OnceNext]_vars

\* ---------------------------------------------------------------- TrayApp
\* a settings field whose text int() cannot parse
NotInt == -1000

\* what the operator can type into the settings form
IntervalInputs == Intervals \cup {0, NotInt}
DelayInputs == Delays \cup {-3, NotInt}
PortInputs == Ports \cup {0, 65536, NotInt}
Forms == [interval : IntervalInputs, close_delay : DelayInputs,
          output_dir : Dirs, oauth_port : PortInputs,
          logging_enabled : BOOLEAN, run_at_startup : BOOLEAN]

\* the forms that differ from the defaults in what a worker is given, with
\* the port field left alone or made unreadable
WorkerForms == {f \in Forms :
                  /\ f.close_delay # NotInt
                  /\ f.oauth_port \in {DefaultSettings.oauth_port, NotInt}
                  /\ f.logging_enabled
                  /\ ~f.run_at_startup}

\* mutant: the form is applied without being looked at
SaveStageAccepts(form) == "accepted"

\* save_and_close: where the form is rejected, if it is
SaveStage(form) ==
    IF \/ form.interval = NotInt \/ form.close_delay = NotInt
       \/ form.interval <= 0 \/ form.close_delay < 0
    THEN "rejected_first"
    ELSE IF \/ form.oauth_port = NotInt
            \/ form.oauth_port <= 0 \/ form.oauth_port > 65535
         THEN "rejected_port"
         ELSE "accepted"

\* save_and_close: the in-memory settings it leaves behind; interval,
\* close_delay and output_dir are assigned before the port is parsed
AfterSave(s, form) ==
    CASE SaveStage(form) = "rejected_first" -> s
      [] SaveStage(form) = "rejected_port" ->
            [s EXCEPT !.interval = form.interval,
                      !.close_delay = form.close_delay,
                      !.output_dir = form.output_dir]
      [] SaveStage(form) = "accepted" ->
            [interval |-> form.interval, close_delay |-> form.close_delay,
             output_dir |-> form.output_dir, oauth_port |-> form.oauth_port,
             logging_enabled |-> form.logging_enabled,
             run_at_startup |-> form.run_at_startup]

\* self.worker and self.worker.is_alive()
WorkerAlive(w, th) == w # 0 /\ IsAlive(th[w])

\* mutant: start() does not look at the worker it already has
StartBlockedNever(w, th) == FALSE

\* the early return of TrayApp.start
StartBlocked(w, th) == WorkerAlive(w, th)

HasFree == \E t \in Threads : threads[t].st = "unborn"
FreeId == CHOOSE t \in Threads :
            /\ threads[t].st = "unborn"
            /\ \A u \in Threads : u < t => threads[u].st # "unborn"

\* TrayApp.start past its early return: clear the event, create the thread
\* from the current settings, start it
StartWorker ==
    /\ HasFree
    /\ stop_event' = FALSE
    /\ threads' = [threads EXCEPT ![FreeId] =
                      [st |-> "test", interval |-> settings.interval,
                       close_delay |-> settings.close_delay,
                       output_dir |-> settings.output_dir]]
    /\ worker' = FreeId

\* menu Start, and the start() of TrayApp.run
TrayStart ==
    /\ ui = "idle"
    /\ ~StartBlocked(worker, threads)
    /\ StartWorker
    /\ restarted' = FALSE
    /\ UNCHANGED <<ui, settings, saved, cycleVars, decVars>>

\* menu Stop: set the event, then join(timeout=5)
StopRequest ==
    /\ ui = "idle"
    /\ WorkerAlive(worker, threads)
    /\ stop_event' = TRUE
    /\ ui' = "join"
    /\ restarted' = FALSE
    /\ UNCHANGED <<worker, threads, settings, saved, cycleVars, decVars>>

\* the process ends: daemon threads end with it
Exited == [t \in Threads |-> IF IsAlive(threads[t]) THEN Ended
                                                      ELSE threads[t]]

\* join(timeout=5) can return: the thread has ended, or it is inside a
\* process_once that outlasts the five seconds (the other steps of run()
\* take no time to speak of)
JoinMayReturn(th) == ~IsAlive(th) \/ th.st = "cycle"

\* join returns
JoinReturns ==
    /\ ui \in {"join", "rejoin", "quitjoin"}
    /\ JoinMayReturn(threads[worker])
    /\ ui' = CASE ui = "join" -> "idle"
               [] ui = "rejoin" -> "restart"
               [] ui = "quitjoin" -> "exited"
    /\ threads' = IF ui = "quitjoin" THEN Exited ELSE threads
    /\ UNCHANGED <<worker, stop_event, settings, saved, restarted, cycleVars,
                   decVars>>

\* menu Quit: stop(), then icon.stop()
Quit ==
    /\ ui = "idle"
    /\ IF WorkerAlive(worker, threads)
       THEN stop_event' = TRUE /\ ui' = "quitjoin"
       ELSE ui' = "exited" /\ UNCHANGED stop_event
    /\ restarted' = FALSE
    /\ UNCHANGED <<worker, threads, settings, saved, cycleVars, decVars>>

\* the Save button of the settings window.  A rejected form shows the error
\* box (modal) and leaves the window open; an accepted one is written to
\* settings.json (the write is taken to succeed) and, if the worker was
\* alive, followed by stop(), a short sleep and start()
SaveSettings(forms) ==
    /\ ui = "idle"
    /\ \E form \in forms :
        /\ settings' = AfterSave(settings, form)
        /\ IF SaveStage(form) = "accepted"
           THEN /\ saved' = settings'
                /\ IF WorkerAlive(worker, threads)
                   THEN stop_event' = TRUE /\ ui' = "rejoin"
                   ELSE UNCHANGED <<stop_event, ui>>
           ELSE ui' = "error_box" /\ UNCHANGED <<saved, stop_event>>
    /\ restarted' = FALSE
    /\ UNCHANGED <<worker, threads, cycleVars, decVars>>

\* the error box of a rejected form is closed
DismissError ==
    /\ ui = "error_box"
    /\ ui' = "idle"
    /\ UNCHANGED <<worker, threads, stop_event, settings, saved, restarted,
                   cycleVars, decVars>>

\* the start() of the restart, and the message that the watcher was restarted
RestartStart ==
    /\ ui = "restart"
    /\ IF StartBlocked(worker, threads)
       THEN UNCHANGED <<stop_event, threads, worker>>
       ELSE StartWorker
    /\ ui' = "idle"
    /\ restarted' = TRUE
    /\ UNCHANGED <<settings, saved, cycleVars, decVars>>

\* one step of a worker thread changes only that thread
ThreadStep(t, from, to) ==
    /\ ui # "exited"
    /\ threads[t].st = from
    /\ threads' = [threads EXCEPT ![t] = IF to = "dead" THEN Ended
                                         ELSE [@ EXCEPT !.st = to]]
    /\ UNCHANGED <<ui, worker, stop_event, settings, saved, restarted,
                   cycleVars, decVars>>

\* while not self.stop_event.is_set()
ThreadTest(t) ==
    ThreadStep(t, "test", IF LoopTest("WatcherThread", stop_event)
                          THEN "call" ELSE "dead")

\* process_once is called
ThreadCall(t) == ThreadStep(t, "call", "cycle")

\* process_once returns or raises
ThreadReturn(t) == ThreadStep(t, "cycle", "wait")

\* stop_event.wait(interval) returns, and the break if it returned True
ThreadWait(t) ==
    ThreadStep(t, "wait", IF AfterWait("WatcherThread", stop_event) = "stopped"
                          THEN "dead" ELSE "test")

TrayNext ==
    \/ TrayStart
    \/ StopRequest
    \/ JoinReturns
    \/ Quit
    \/ SaveSettings(WorkerForms)
    \/ DismissError
    \/ RestartStart
    \/ \E t \in Threads : ThreadTest(t)
    \/ \E t \in Threads : ThreadCall(t)
    \/ \E t \in Threads : ThreadReturn(t)
    \/ \E t \in Threads : ThreadWait(t)

\* the tray application: its menu and settings callbacks and its workers
TrayInit == InitCycle /\ session = "WatcherThread" /\ InitTray /\ DecodeIdle
TraySpec == TrayInit /\ [][TrayNext]_vars

\* ------------------------------------------------------------ settings.json
\* a key that settings.json does not have
Absent == -2000

\* the forms with the log and startup boxes left as they are by default
SettingsForms == {f \in Forms : f.logging_enabled /\ ~f.run_at_startup}

\* what settings.json can hold when it is read: anything the operator, or an
\* earlier save, put there
ConfigFiles == [interval : IntervalInputs \cup {Absent},
                close_delay : DelayInputs \cup {Absent},
                output_dir : Dirs,
                oauth_port : PortInputs \cup {Absent},
                logging_enabled : {TRUE}, run_at_startup : {FALSE}]

\* cfg.get(key, current)
Get(v, current) == IF v = Absent THEN current ELSE v

\* _load_config on a file that parses as JSON: each field is applied if it
\* is valid; int() of an unreadable value raises, which ends the load with
\* the fields before it applied
AfterLoad(s, cfg) ==
    IF cfg.interval = NotInt THEN s
    ELSE
    LET s1 == IF Get(cfg.interval, s.interval) > 0
              THEN [s EXCEPT !.interval = Get(cfg.interval, s.interval)]
              ELSE s
    IN  IF cfg.close_delay = NotInt THEN s1
        ELSE
        LET s2 == IF Get(cfg.close_delay, s1.close_delay) >= 0
                  THEN [s1 EXCEPT !.close_delay =
                                      Get(cfg.close_delay, s1.close_delay)]
                  ELSE s1
            s3 == IF cfg.output_dir # "None"
                  THEN [s2 EXCEPT !.output_dir = cfg.output_dir]
                  ELSE s2
        IN  IF cfg.oauth_port = NotInt THEN s3
            ELSE
            LET port == Get(cfg.oauth_port, s3.oauth_port)
                s4 == IF 0 < port /\ port <= 65535
                      THEN [s3 EXCEPT !.oauth_port = port]
                      ELSE s3
            IN  [s4 EXCEPT !.logging_enabled = cfg.logging_enabled,
                           !.run_at_startup = cfg.run_at_startup]

\* the application is quit and launched again: TrayApp.__init__ sets the
\* defaults and is about to call _load_config
Relaunch ==
    /\ ui = "idle"
    /\ ~WorkerAlive(worker, threads)
    /\ ui' = "init"
    /\ settings' = DefaultSettings
    /\ restarted' = FALSE
    /\ UNCHANGED <<worker, threads, stop_event, saved, cycleVars, decVars>>

\* _load_config: no file or a file that cannot be read leaves the settings
\* alone
LoadConfig ==
    /\ ui = "init"
    /\ \/ settings' = settings
       \/ \E cfg \in ConfigFiles : settings' = AfterLoad(settings, cfg)
    /\ ui' = "idle"
    /\ UNCHANGED <<worker, threads, stop_event, saved, restarted, cycleVars,
                   decVars>>

SettingsNext ==
    \/ SaveSettings(SettingsForms)
    \/ DismissError
    \/ Relaunch
    \/ LoadConfig

\* the settings of the tray application over saves and launches
SettingsSpec == TrayInit /\ [][SettingsNext]_vars

\* ------------------------------------------------- decoder and extractors
\* What an extractor sees of a part's content, in document order: the hrefs
\* of its anchors, its URL tokens, its table cells.  "x" does not carry the
\* marker looked for, the others do; "m2." is m2 followed by punctuation.
Items == {"x", "m1", "m2", "m2."}
Docs == {<<"x">>, <<"m1">>, <<"x", "m2.">>, <<"m2", "m1">>}
TreeDocs == {<<"x">>, <<"m1">>}

\* '/update-primary-location' in href, 'demande effectuée par' in txt.lower()
HasMarker(e) == e # "x"

\* url.rstrip(").,>]')\"")
Clean(e) == IF e = "m2." THEN "m2" ELSE e

IsHtml(mime) == mime = "text/html"      \* mime.startswith('text/html')
IsPlain(mime) == mime = "text/plain"    \* mime.startswith('text/plain')

\* a body dict: empty or without data, inline data, or an attachmentId whose
\* fetch returns data, raises HttpError, or raises anything else
NoBody == [kind |-> "empty", doc |-> <<>>]
Bodies == {NoBody}
          \cup [kind : {"data", "att_ok"}, doc : TreeDocs]
          \cup [kind : {"att_http_error", "att_error"}, doc : {<<>>}]

LeafNodes == [mime : {"text/html", "text/plain"}, body : Bodies,
              parts : {<<>>}]
Multipart(f) == [mime |-> "multipart/mixed", body |-> NoBody, parts |-> f]

\* the MIME trees of at most n nodes, and the sequences of trees of at most
\* n nodes altogether
RECURSIVE TreesOf(_), ForestsOf(_)
TreesOf(n) ==
    LeafNodes \cup (IF n >= 2
                    THEN {Multipart(f) : f \in ForestsOf(n - 1) \ {<<>>}}
                    ELSE {})
ForestsOf(n) ==
    {<<>>} \cup UNION {{<<t>> \o f : t \in TreesOf(k), f \in ForestsOf(n - k)} :
                       k \in 1..n}

Payloads == TreesOf(MaxNodes)

\* decoded parts given to an extractor
Parts == [mime : {"text/html", "text/plain"}, content : Docs]
         \cup {[mime |-> "image/png", content |-> <<"m1">>]}
PartsIn == SeqsUpTo(Parts, MaxParts)

\* outcome of a decoder step: the parts it appended, or an exception
Got(ps) == [err |-> FALSE, parts |-> ps]
Raised == [err |-> TRUE, parts |-> <<>>]
Then(r1, r2) == IF r1.err THEN Raised
                ELSE IF r2.err THEN Raised
                ELSE Got(r1.parts \o r2.parts)

\* _gather_parts.add_part
AddPart(mime, body) ==
    CASE body.kind \in {"data", "att_ok"} ->
            Got(<<[mime |-> mime, content |-> body.doc]>>)
      [] body.kind = "att_http_error" -> Got(<<>>)
      [] body.kind = "att_error" -> Raised
      [] OTHER -> Got(<<>>)

\* GmailWatcher._gather_parts: for a node with parts, each child's body is
\* added and then the child is gathered in turn; a node without parts adds
\* its own body
RECURSIVE GatherParts(_), GatherChildren(_)
GatherParts(p) ==
    IF p = NoPayload THEN Got(<<>>)
    ELSE IF p.parts # <<>> THEN GatherChildren(p.parts)
    ELSE AddPart(p.mime, p.body)
GatherChildren(ps) ==
    IF ps = <<>> THEN Got(<<>>)
    ELSE Then(Then(AddPart(Head(ps).mime, Head(ps).body),
                   GatherParts(Head(ps))),
              GatherChildren(Tail(ps)))

\* first element of a document that carries the marker, NoLink if none
RECURSIVE FirstInDoc(_)
FirstInDoc(doc) ==
    IF doc = <<>> THEN NoLink
    ELSE IF HasMarker(Head(doc)) THEN Head(doc)
    ELSE FirstInDoc(Tail(doc))

\* the nested for loops of the extractors: documents in order, elements in
\* document order, return at the first element carrying the marker
RECURSIVE FirstInDocs(_)
FirstInDocs(ds) ==
    IF ds = <<>> THEN NoLink
    ELSE IF FirstInDoc(Head(ds)) # NoLink THEN FirstInDoc(Head(ds))
    ELSE FirstInDocs(Tail(ds))

\* html_candidates and text_candidates
IsHtmlPart(part) == IsHtml(part.mime)
IsPlainPart(part) == IsPlain(part.mime)
Contents(ps) == [i \in 1..Len(ps) |-> ps[i].content]
\* a scan that takes the parts as they come, whatever their kind
AnyCandidates(ps) == Contents(ps)
HtmlCandidates(ps) == Contents(SelectSeq(ps, IsHtmlPart))
TextCandidates(ps) == Contents(SelectSeq(ps, IsPlainPart))

\* extract_update_link_from_message, on the gathered parts
ExtractLink(ps) ==
    IF FirstInDocs(HtmlCandidates(ps)) # NoLink
    THEN FirstInDocs(HtmlCandidates(ps))
    ELSE IF FirstInDocs(TextCandidates(ps)) # NoLink
    THEN Clean(FirstInDocs(TextCandidates(ps)))
    ELSE NoLink

\* extract_requester_text_from_message, on the gathered parts
ExtractRequester(ps) == FirstInDocs(HtmlCandidates(ps))

\* the decoder is called on a message payload
Decode ==
    /\ dpc = "payload"
    /\ LET r == GatherParts(payload)
       IN  IF r.err
           THEN dpc' = "raised" /\ dparts' = <<>>
           ELSE dpc' = "decoded" /\ dparts' = r.parts
    /\ UNCHANGED <<payload, dout>>
    /\ UNCHANGED <<cycleVars, stop_event, trayVars>>

\* extract_update_link_from_message once the parts are gathered
ExtractLinkCall ==
    /\ dpc \in {"parts", "decoded"}
    /\ dpc' = "link"
    /\ dout' = ExtractLink(dparts)
    /\ UNCHANGED <<payload, dparts>>
    /\ UNCHANGED <<cycleVars, stop_event, trayVars>>

\* extract_requester_text_from_message on a message: it gathers the parts
\* of the payload itself
ExtractRequesterCall ==
    /\ dpc = "payload"
    /\ LET r == GatherParts(payload)
       IN  IF r.err
           THEN dpc' = "requester_raised" /\ dparts' = <<>>
                /\ dout' = dout
           ELSE dpc' = "requester" /\ dparts' = r.parts
                /\ dout' = ExtractRequester(r.parts)
    /\ UNCHANGED payload
    /\ UNCHANGED <<cycleVars, stop_event, trayVars>>

\* the same once the parts are gathered
ExtractRequesterParts ==
    /\ dpc = "parts"
    /\ dpc' = "requester"
    /\ dout' = ExtractRequester(dparts)
    /\ UNCHANGED <<payload, dparts>>
    /\ UNCHANGED <<cycleVars, stop_event, trayVars>>

DecodeNext ==
    \/ Decode
    \/ ExtractLinkCall
    \/ ExtractRequesterCall
    \/ ExtractRequesterParts

InitDecode ==
    /\ dout = NoLink
    /\ \/ dpc = "payload" /\ payload \in Payloads /\ dparts = <<>>
       \/ dpc = "parts" /\ payload = NoPayload /\ dparts \in PartsIn

DecodeInit ==
    InitCycle /\ session = "WatcherThread" /\ InitTray /\ InitDecode

DecodeSpec == DecodeInit /\ [][DecodeNext]_vars


\* ============================================================ properties
\* used by the properties below
Succeeded(a) == a.via = "open" \/ a.outcome = "true"
Cands == 1..Len(ids)
StaleCand(i) == anchor_ts_ms # None /\ InternalMs(ids[i]) <= anchor_ts_ms
ActedOn(i) == \E k \in 1..Len(acts) : acts[k].mid = i
MarkedRead(i) == \E ok \in BOOLEAN : <<i, ok>> \in marked
Recorded(i) == \E t \in Times : <<i, t>> \in wrote

\* C1: process_once returns (0, actioned, next_anchor) only if the action
\* succeeded for some candidate of the invocation; after an attempt that
\* returned false or raised, it reports actioned = false and no next_anchor.
C1_ActionedOnlyOnSuccess ==
    ppc = "returned" =>
        /\ (result.exit_code = 0 \/ result.actioned \/ result.next_anchor # None)
              => \E k \in 1..Len(acts) : Succeeded(acts[k])
        /\ (\E k \in 1..Len(acts) : ~Succeeded(acts[k]))
              => (\/ \E k \in 1..Len(acts) : Succeeded(acts[k])
                  \/ (~result.actioned /\ result.next_anchor = None))

\* C2: a candidate whose receipt timestamp is at or before the anchor is
\* never link-extracted, acted on (actor or open), marked read or recorded.
C2_StaleSuppression ==
    \A i \in Cands :
        StaleCand(i) =>
            /\ i \notin extracted
            /\ ~ActedOn(i)
            /\ ~MarkedRead(i)
            /\ ~Recorded(i)

C2_Witness ==
    /\ ppc = "returned"
    /\ Len(ids) = 2
    /\ StaleCand(1)
    /\ <<1, "stale">> \in skipped
    /\ ActedOn(2)

\* C3: within a session the anchor handed to process_once never decreases
\* from one cycle to the next, whether cycles return or raise, and neither
\* does the anchor the scheduler holds.
C3_AnchorMonotone ==
    [][/\ anchor_ts_ms # None => anchor_ts_ms' >= anchor_ts_ms
       /\ anchor # None => anchor' >= anchor]_vars

C3_Witness ==
    /\ spc = "ready"
    /\ anchor_ts_ms # None
    /\ anchor > anchor_ts_ms

\* C4 as stated: once an action succeeds nothing later is fetched, extracted
\* or acted on, and the candidate acted on is the first candidate of the
\* batch that carries a link.
C4_Original ==
    /\ \A k \in 1..Len(acts) :
          Succeeded(acts[k]) =>
              /\ fetched = acts[k].mid
              /\ \A i \in extracted : i <= acts[k].mid
              /\ Len(acts) = k
    /\ \A k \in 1..Len(acts) :
          \A j \in Cands : j < acts[k].mid => ids[j].link = NoLink

\* C4 (amended): once an action succeeds nothing later is fetched, extracted
\* or acted on; at most one action succeeds per cycle; and the candidate
\* acted on is the first one that passes the anchor filter, carries a link
\* and is not suppressed as a duplicate.
C4_FirstSuccessWins ==
    /\ \A k \in 1..Len(acts) :
          Succeeded(acts[k]) =>
              /\ fetched = acts[k].mid
              /\ \A i \in extracted : i <= acts[k].mid
              /\ Len(acts) = k
              /\ ppc = "returned"
    /\ Cardinality({k \in 1..Len(acts) : Succeeded(acts[k])}) <= 1
    /\ \A k \in 1..Len(acts) :
          \A j \in Cands :
              j < acts[k].mid =>
                  \/ StaleCand(j)
                  \/ ids[j].link = NoLink
                  \/ <<j, "dedup">> \in skipped

C4_Witness ==
    /\ ppc = "returned"
    /\ Len(ids) = 2
    /\ \A i \in Cands : ~StaleCand(i) /\ ids[i].link # NoLink
    /\ ids[1].link # ids[2].link
    /\ Len(acts) = 1 /\ acts[1].mid = 1 /\ Succeeded(acts[1])
    /\ fetched = 1

\* C5: with open_once set, a candidate whose extracted link equals
\* LAST_OPENED_LINK is not acted on, not marked read and not recorded, and
\* the loop goes on to the next candidate.
C5_Dedup ==
    [][(/\ InLoop
        /\ open_once
        /\ mid \in extracted'
        /\ msg.link = LAST_OPENED_LINK)
          => /\ acts' = acts
             /\ marked' = marked
             /\ wrote' = wrote
             /\ records' = records
             /\ LAST_OPENED_LINK' = LAST_OPENED_LINK
             /\ ppc' = "loop"
             /\ idx' = idx + 1]_vars

C5_Witness ==
    /\ <<1, "dedup">> \in skipped
    /\ open_once
    /\ ids[1].link = LAST_OPENED_LINK
    /\ ~ActedOn(1)
    /\ fetched = 2

\* C6: after an invocation that successfully actioned link L (by the actor
\* or by open-only), LAST_OPENED_LINK is L.
C6_LastLinkOverwritten ==
    ppc = "returned" =>
        \A k \in 1..Len(acts) :
            Succeeded(acts[k]) => LAST_OPENED_LINK = acts[k].link

\* C7: exit code 1 exactly when the search returned nothing; exit code 2
\* exactly when there were candidates and the loop ran to its end without an
\* action; both with actioned = false and no next_anchor.
C7_ExitCodes ==
    ppc = "returned" =>
        /\ result.exit_code = 1 <=> ids = <<>>
        /\ result.exit_code = 2 <=>
              (Len(ids) >= 1 /\ idx > Len(ids) /\ acts = <<>>)
        /\ result.exit_code \in {1, 2} =>
              (~result.actioned /\ result.next_anchor = None)

C7_Witness ==
    /\ ppc = "returned"
    /\ result.exit_code = 2
    /\ Len(ids) = 1
    /\ <<1, "nolink">> \in skipped

\* C8 as stated: when every candidate of a non-empty batch is skipped by the
\* anchor filter, process_once returns exit code 1 and actioned = false.
C8_Original ==
    (ppc = "returned" /\ Len(ids) >= 1 /\ \A i \in Cands : StaleCand(i))
        => (result.exit_code = 1 /\ ~result.actioned)

\* C8 (amended): when every candidate of a non-empty batch is skipped by the
\* anchor filter, process_once returns exit code 2, actioned = false and no
\* next_anchor.
C8_AnchorSkip ==
    (ppc = "returned" /\ Len(ids) >= 1 /\ \A i \in Cands : StaleCand(i))
        => (/\ result.exit_code = 2
            /\ ~result.actioned
            /\ result.next_anchor = None)

C8_Witness ==
    /\ ppc = "returned"
    /\ Len(ids) = 1
    /\ ids[1].link # NoLink
    /\ InternalMs(ids[1]) = anchor_ts_ms
    /\ result.exit_code = 2

\* C9: a failing fetch of one candidate never leaves process_once as an
\* exception; the loop goes on with the remaining candidates.
C9_FetchLocalized ==
    /\ ~(ppc = "raised" /\ raised_in = "fetch")
    /\ ppc = "raised" => fetched = 0

\* C10: a failing search leaves process_once as an exception before anything
\* is fetched, extracted, acted on, marked read or recorded and with
\* LAST_OPENED_LINK as it was; the scheduler then keeps its anchor, goes to
\* sleep and, unless stopped, is ready for the next cycle.
C10_SearchFailure ==
    [][/\ (ppc = "search" /\ ppc' = "raised")
             => /\ raised_in' = "search"
                /\ fetched' = 0 /\ extracted' = {} /\ acts' = <<>>
                /\ marked' = {} /\ wrote' = {}
                /\ UNCHANGED <<records, LAST_OPENED_LINK, anchor, spc>>
       /\ (spc = "cycle" /\ ppc = "raised" /\ raised_in = "search" /\ spc' # spc)
             => /\ spc' = "sleep"
                /\ UNCHANGED <<records, LAST_OPENED_LINK, anchor>>
       /\ (spc = "sleep" /\ spc' # spc /\ ~stop_event) => spc' = "ready"
       /\ (spc = "ready" /\ spc' # spc /\ ~stop_event) => spc' = "call"
       /\ (spc = "call" /\ spc' # spc) => spc' = "cycle"]_vars

C10_Witness ==
    /\ spc = "cycle" /\ ppc = "raised" /\ raised_in = "search"
    /\ LAST_OPENED_LINK # Unset
    /\ records # {}

\* C11: an exception of one cycle does not end the scheduler: it is caught,
\* the anchor stays as it was and the scheduler goes to sleep; and as long as
\* no stop is requested, new cycles keep being started.
C11_SchedulerNeverStops ==
    /\ [][(spc = "cycle" /\ ppc = "raised" /\ spc' # spc)
             => (spc' = "sleep" /\ anchor' = anchor)]_vars
    /\ ([]~stop_event) => []<>(spc = "cycle" /\ ppc = "search")

C11_Witness ==
    /\ spc = "cycle" /\ ppc = "raised" /\ raised_in = "fetch"
    /\ fetched = 2
    /\ ~stop_event

\* C12: an exception of the Confirmation Actor does not leave process_once;
\* the attempt counts as success = false: no result file is written for the
\* candidate and LAST_OPENED_LINK stays as it was.
C12_ActorExceptionCaught ==
    [][(Len(acts') = Len(acts) + 1 /\ acts'[Len(acts')].outcome = "raise")
          => /\ ppc' # "raised"
             /\ raised_in' = "none"
             /\ wrote' = wrote
             /\ records' = records
             /\ LAST_OPENED_LINK' = LAST_OPENED_LINK]_vars

C12_Witness ==
    /\ ppc = "returned"
    /\ Len(acts) = 1
    /\ acts[1].outcome = "raise"
    /\ wrote = {}

\* C13: a message is marked as read only after the action on its link
\* succeeded: whenever mark_as_read was invoked for a message of the
\* invocation, the actor returned true for it or open-only was used.
C13_MarkOnlyAfterSuccess ==
    \A e \in marked :
        \E k \in 1..Len(acts) : acts[k].mid = e[1] /\ Succeeded(acts[k])

\* C14: after a successful action process_once returns (0, true, next_anchor)
\* and has attempted mark_as_read, whether or not the result file could be
\* written and whether or not mark_as_read itself failed.
C14_PersistenceBestEffort ==
    \A k \in 1..Len(acts) :
        Succeeded(acts[k])
            => /\ ppc = "returned"
               /\ raised_in = "none"
               /\ result.exit_code = 0
               /\ result.actioned
               /\ result.next_anchor # None
               /\ MarkedRead(acts[k].mid)

C14_Witness ==
    /\ ppc = "returned"
    /\ Len(acts) = 1
    /\ acts[1].via = "actor" /\ acts[1].outcome = "true"
    /\ ~Recorded(acts[1].mid)
    /\ <<acts[1].mid, FALSE>> \in marked

\* C15: a candidate that passes the anchor filter and carries no matching
\* link has no effect: no action, no mark_as_read, no result file,
\* LAST_OPENED_LINK and the anchor as before, and the scan goes on with the
\* next candidate.
C15_NoLinkNoEffect ==
    [][(InLoop /\ msg.link = NoLink /\ mid \in extracted')
          => /\ acts' = acts
             /\ marked' = marked
             /\ wrote' = wrote
             /\ records' = records
             /\ LAST_OPENED_LINK' = LAST_OPENED_LINK
             /\ anchor' = anchor
             /\ anchor_ts_ms' = anchor_ts_ms
             /\ ppc' = "loop"
             /\ idx' = idx + 1]_vars

\* the candidate after the one without a link was acted on in the same cycle
C15_Witness ==
    /\ <<1, "nolink">> \in skipped
    /\ Len(acts) = 1
    /\ acts[1].mid = 2 /\ Succeeded(acts[1])
    /\ ppc = "returned"

\* the action on candidate acts[k].mid succeeded: it was invoked once in the
\* invocation, with the link extracted from that message, and process_once
\* returned (0, true, next_anchor)
RoundTrip(k) ==
    /\ Len(acts) = 1
    /\ acts[k].link = ids[acts[k].mid].link
    /\ acts[k].link # NoLink
    /\ ppc = "returned"
    /\ result.exit_code = 0
    /\ result.actioned

C17_OpenOnly ==
    /\ [][(/\ InLoop /\ ~auto_click
           /\ ~StaleCand(idx)
           /\ msg.link # NoLink
           /\ ~(open_once /\ LAST_OPENED_LINK = msg.link)
           /\ mid \in extracted')
             => /\ acts' = Append(acts, [mid |-> mid, link |-> msg.link,
                                         via |-> "open", outcome |-> "true"])
                /\ ppc' = "returned"
                /\ result'.exit_code = 0
                /\ result'.actioned
                /\ result'.next_anchor # None]_vars
    /\ [](~auto_click => \A k \in 1..Len(acts) : acts[k].via = "open")

\* open-only acted on the second candidate after skipping the first
C17_Witness ==
    /\ ~auto_click
    /\ ppc = "returned"
    /\ Len(acts) = 1 /\ acts[1].via = "open" /\ acts[1].mid = 2
    /\ result.actioned

\* C18: the scheduler changes its anchor only on the return of a cycle that
\* reports actioned = true with a next_anchor; a cycle that returns exit code
\* 1 or 2, or that raises, leaves the anchor exactly as it was.
C18_AnchorFrame ==
    /\ [][(spc # "start" /\ anchor' # anchor)
             => /\ spc = "cycle" /\ ppc = "returned"
                /\ result.actioned
                /\ result.next_anchor # None
                /\ anchor' = result.next_anchor]_vars
    /\ [][(/\ spc = "cycle" /\ spc' # spc
           /\ \/ ppc = "raised"
              \/ ppc = "returned" /\ result.exit_code \in {EmptyCode, LoopEndCode})
             => anchor' = anchor]_vars

\* a cycle ended with exit code 2 after the anchor had been advanced by an
\* earlier cycle
C18_Witness ==
    /\ spc = "cycle" /\ ppc = "returned"
    /\ result.exit_code = LoopEndCode
    /\ anchor = anchor_ts_ms
    /\ records # {}

\* setting the stop signal leaves the worker where it is, and an invocation
\* of process_once that is in flight ends by returning or raising to the
\* scheduler, which then goes to its wait, signal or no signal
InFlightCompletes ==
    /\ [][stop_event' # stop_event
             => UNCHANGED <<spc, ppc, idx, ids, result, raised_in, anchor,
                            anchor_ts_ms, logVars, worldVars>>]_vars
    /\ [][(spc = "cycle" /\ spc' # spc)
             => (ppc \in {"returned", "raised"} /\ spc' = "sleep")]_vars

\* C19 as stated: an invocation in flight runs to completion, and once the
\* stop signal has been set the worker starts no further invocation of
\* process_once.
C19_Original ==
    /\ InFlightCompletes
    /\ [][stop_event => ~(spc # "cycle" /\ spc' = "cycle")]_vars

\* C19: an invocation in flight runs to completion; once the stop signal has
\* been set the loop test never passes again and the wait ends the thread, so
\* the only invocation that can still start is the one whose loop test had
\* passed before the signal was set.
C19_CooperativeStop ==
    /\ InFlightCompletes
    /\ [][(stop_event /\ spc \in {"ready", "sleep"} /\ spc' # spc)
             => spc' = "stopped"]_vars
    /\ [][(stop_event /\ spc # "cycle" /\ spc' = "cycle")
             => spc = "call"]_vars

\* the signal was set while process_once was running, and it returned
C19_Witness ==
    /\ stop_event
    /\ spc = "cycle" /\ ppc = "returned"
    /\ Len(acts) = 1
    /\ result.actioned

\* C20: once the stop signal is set for a running watcher, the worker thread
\* eventually ends (every step of process_once ends the invocation or moves
\* on in the batch); a worker that is in its wait when the signal is set
\* leaves the wait by ending the loop, not by another round.
C20_StopLiveness ==
    /\ stop_event ~> (spc = "stopped")
    /\ [][(spc = "sleep" /\ stop_event /\ spc' # spc) => spc' = "stopped"]_vars
    /\ [](spc = "stopped" => stop_event /\ session = "WatcherThread")

\* the worker thread has ended after at least one successful cycle
C20_Witness ==
    /\ spc = "stopped"
    /\ stop_event
    /\ records # {}

\* C23: result files are one per successful action and never mutated: a file
\* is written only for an action that succeeded, each successful write makes
\* a new file named by its timestamp, and no file written before is
\* overwritten or deleted, so there are as many files as successful writes.
C23_OneRecordPerAction ==
    [][/\ records \subseteq records'
       /\ records' # records => Len(acts') = Len(acts) + 1
       /\ (Len(acts') = Len(acts) + 1 /\ wrote' # wrote)
             => /\ Succeeded(acts'[Len(acts')])
                /\ \E t \in Times :
                      /\ t \notin records
                      /\ records' = records \cup {t}
                      /\ wrote' = wrote \cup {<<mid, t>>}]_vars

C29_NoRepeatAction ==
    [][(open_once /\ Len(acts') = Len(acts) + 1)
          => acts'[Len(acts')].link # last_actioned]_vars

Alive == {t \in Threads : IsAlive(threads[t])}
InCycle == {t \in Threads : threads[t].st = "cycle"}

\* C21: whatever the order of start, stop (with a join that times out while
\* a cycle is in flight), restarts after a settings save and quit, at most
\* one WatcherThread is alive, it is the one TrayApp.worker refers to, and at
\* most one invocation of process_once is executing.
C21_NoOverlappingCycles ==
    /\ Cardinality(Alive) <= 1
    /\ Cardinality(InCycle) <= 1
    /\ \A t \in Alive : t = worker

\* the restart's start() found the old worker still inside its cycle, after
\* the join had timed out
C21_Witness ==
    /\ ui = "idle" /\ restarted
    /\ stop_event
    /\ worker = 1 /\ threads[1].st = "cycle"
    /\ threads[2].st = "unborn"

\* C22: a form with an invalid numeric field is rejected before anything is
\* applied: when the error box comes up, the in-memory settings, the
\* settings file and the worker are what they were before the save.
C22_RejectedBeforeApplied ==
    [][ui' = "error_box"
          => /\ settings' = settings
             /\ saved' = saved
             /\ threads' = threads
             /\ worker' = worker
             /\ stop_event' = stop_event]_vars

\* C30: after a save that stopped and started the watcher and reported the
\* restart, a worker thread holding the new interval, close delay and output
\* directory is alive and keeps polling (the stop signal is clear), also when
\* the old worker was inside a cycle that outlasted the join.
C30_RestartedWorkerRuns ==
    restarted
        => /\ WorkerAlive(worker, threads)
           /\ ~stop_event
           /\ threads[worker].interval = settings.interval
           /\ threads[worker].close_delay = settings.close_delay
           /\ threads[worker].output_dir = settings.output_dir

\* ------------------------------------------- decoder and extractor claims
\* the leaves of a MIME tree that carry data, one entry each, in pre-order
\* with children in the given order
RECURSIVE DataLeaves(_), DataLeavesOf(_)
DataLeaves(p) ==
    IF p = NoPayload THEN <<>>
    ELSE IF p.parts # <<>> THEN DataLeavesOf(p.parts)
    ELSE IF p.body.kind \in {"data", "att_ok"}
    THEN <<[mime |-> p.mime, content |-> p.body.doc]>>
    ELSE <<>>
DataLeavesOf(ps) ==
    IF ps = <<>> THEN <<>>
    ELSE DataLeaves(Head(ps)) \o DataLeavesOf(Tail(ps))

\* C24: for every MIME tree the decoder returns exactly one entry per
\* data-carrying leaf, in pre-order with children in the given order, and
\* nothing for a node with child parts.
C24_OneEntryPerLeaf ==
    dpc = "decoded" => dparts = DataLeaves(payload)

\* the same tree where every part whose fetch fails carries nothing
RECURSIVE WithoutFailed(_), WithoutFailedOf(_)
WithoutFailed(p) ==
    IF p.parts # <<>> THEN [p EXCEPT !.parts = WithoutFailedOf(p.parts)]
    ELSE IF p.body.kind \in {"att_http_error", "att_error"}
    THEN [p EXCEPT !.body = NoBody]
    ELSE p
WithoutFailedOf(ps) ==
    IF ps = <<>> THEN <<>>
    ELSE <<WithoutFailed(Head(ps))>> \o WithoutFailedOf(Tail(ps))

HasFailedFetch(p) == WithoutFailed(p) # p

\* C25: when the fetch of an externally stored part fails, the decoder
\* raises nothing and returns what it returns for the message without
\* that part: the other parts, in their order.
C25_FetchFailureOmitsPart ==
    (dpc \in {"decoded", "raised"} /\ HasFailedFetch(payload))
        => /\ dpc = "decoded"
           /\ dparts = GatherParts(WithoutFailed(payload)).parts

\* the positions of the parts of one kind that hold an element carrying
\* the marker, and the first such element of a part
Matching(ps, IsKind(_)) ==
    {i \in 1..Len(ps) :
        /\ IsKind(ps[i].mime)
        /\ \E j \in 1..Len(ps[i].content) : HasMarker(ps[i].content[j])}
Lowest(S) == CHOOSE i \in S : \A k \in S : i <= k
FirstMatch(doc) ==
    doc[Lowest({j \in 1..Len(doc) : HasMarker(doc[j])})]

\* C26: link extraction returns the first matching href of the first HTML
\* part that has one, wherever the plain-text parts sit; failing that, the
\* first matching URL token (trailing punctuation removed) of the first
\* plain-text part that has one; and absence exactly when neither kind of
\* part has a match.
C26_LinkPrecedence ==
    dpc = "link" =>
        LET H == Matching(dparts, IsHtml)
            T == Matching(dparts, IsPlain)
        IN  /\ H # {} => dout = FirstMatch(dparts[Lowest(H)].content)
            /\ (H = {} /\ T # {})
                   => dout = Clean(FirstMatch(dparts[Lowest(T)].content))
            /\ dout = NoLink <=> (H = {} /\ T = {})

\* a plain-text part with a match sits before the HTML part whose second
\* anchor is the answer, and the HTML link was returned
C26_Witness ==
    /\ dpc = "link"
    /\ Len(dparts) = 3
    /\ IsPlain(dparts[1].mime) /\ dparts[1].content = <<"m2", "m1">>
    /\ IsHtml(dparts[2].mime) /\ dparts[2].content = <<"x">>
    /\ IsHtml(dparts[3].mime) /\ dparts[3].content = <<"x", "m2.">>
    /\ dout = "m2."

\* C27: requester extraction on a message returns the first cell carrying
\* the marker phrase, HTML parts only, in part order then document order;
\* it returns absence, and raises nothing, when the phrase is only in
\* plain-text parts or nowhere.
C27_RequesterFromHtmlOnly ==
    /\ dpc # "requester_raised"
    /\ dpc = "requester" =>
          LET ps == IF payload = NoPayload THEN dparts
                    ELSE DataLeaves(payload)
              H == Matching(ps, IsHtml)
          IN  /\ H # {} => dout = FirstMatch(ps[Lowest(H)].content)
              /\ H = {} => dout = NoLink

\* ------------------------------------------------ result and attempt claims
\* C33: every normal return of process_once has exit_code = 0 exactly when
\* actioned is true, exactly when next_anchor is present; exit codes 1 and 2
\* come with actioned = false and no next_anchor.
C33_ResultTriple ==
    ppc = "returned" =>
        /\ result.exit_code \in {0, 1, 2}
        /\ result.exit_code = 0 <=> result.actioned
        /\ result.actioned <=> result.next_anchor # None
        /\ result.exit_code # 0 =>
              (result.actioned = FALSE /\ result.next_anchor = None)

\* a return after an attempt the actor reported as failed: still 0, true
\* and an anchor
C33_Witness ==
    /\ ppc = "returned"
    /\ Len(acts) = 1 /\ acts[1].outcome = "false"
    /\ result = [exit_code |-> 0, actioned |-> TRUE, next_anchor |-> now]

\* C34: in one invocation of process_once the Confirmation Actor or the
\* open-only browser open is invoked at most once, and mark_as_read at most
\* once, whatever the batch and the actor's outcome.
C34_OneAttemptPerCycle ==
    /\ Len(acts) <= 1
    /\ Cardinality({mk[1] : mk \in marked}) <= 1
    /\ Cardinality(marked) <= 1

\* the actor failed on the first candidate and a second one, fresh and with
\* another link, is left alone
C34_Witness ==
    /\ ppc = "returned"
    /\ Len(ids) = 2
    /\ Len(acts) = 1 /\ acts[1].mid = 1 /\ acts[1].outcome = "raise"
    /\ Cardinality(marked) = 1
    /\ fetched = 1
    /\ HasLink(ids[2].link) /\ ids[2].link # ids[1].link
    /\ ~IsStale(InternalMs(ids[2]), anchor_ts_ms)

\* ------------------------------------------------- session and signal claims
\* C31: an operator interrupt delivered to watch_loop makes it log the stop
\* and return 0, whether it arrives during a cycle or during the sleep
\* between cycles; the interrupt never leaves watch_loop as an exception.
C31_InterruptReturnsZero ==
    [][(/\ session = "watch_loop"
        /\ spc \in {"call", "cycle", "sleep"}
        /\ spc' \in {"stopped", "killed"}) => spc' = "stopped"]_vars

C36_BadDateIsZero ==
    \A i \in 1..Len(ids) :
        ids[i].internalDate = BadDate =>
            /\ anchor_ts_ms # None =>
                  /\ i \notin extracted
                  /\ \A k \in 1..Len(acts) : acts[k].mid # i
                  /\ i < idx => <<i, "stale">> \in skipped
            /\ anchor_ts_ms = None =>
                  /\ <<i, "stale">> \notin skipped
                  /\ i < idx => i \in extracted

\* the anchor given is 0 and a message with a link but no usable date has
\* been skipped
C36_Witness ==
    /\ session = "call"
    /\ anchor_ts_ms = 0
    /\ Len(ids) = 2
    /\ ids[1].internalDate = BadDate /\ HasLink(ids[1].link)
    /\ LAST_OPENED_LINK = Unset
    /\ <<1, "stale">> \in skipped
    /\ spc = "stopped" /\ acts = <<>>

\* ------------------------------------------------------------ settings claim
\* C35: whatever settings forms are saved, accepted or rejected, and
\* whatever settings.json holds when it is loaded, TrayApp holds
\* interval > 0, close_delay >= 0 and 1 <= oauth_port <= 65535.
C35_SettingsValid ==
    /\ settings.interval > 0
    /\ settings.close_delay >= 0
    /\ 1 <= settings.oauth_port /\ settings.oauth_port <= 65535

\* a port taken from settings.json at launch, then a form rejected at its
\* port field with its interval already applied
C35_Witness ==
    /\ ui = "error_box"
    /\ saved = DefaultSettings
    /\ settings.oauth_port = 8080
    /\ settings.interval = 30

====
